---- MODULE Spec2Model ----
(***************************************************************************)
(* A model of the fixed width file reader of nsaph_utils                   *)
(* (src/nsaph_utils/utils/fwf.py): FWFMeta, FWFColumn, FWFReader, and of   *)
(* Context.validate (utils/context.py), Test and Tester (qc/tester.py),    *)
(* FSTReader (utils/pyfst.py) and CSVFileWrapper (utils/io_utils.py).      *)
(*                                                                         *)
(* Bytes are integers 0..255, a bytes object is a sequence of them, a str  *)
(* is the sequence of its code points.  Python's None is modelled by a     *)
(* sentinel per type (NoInt for an int attribute, NoData for the buffer).  *)
(***************************************************************************)
EXTENDS Integers, Sequences, FiniteSets, TLC

VARIABLES
    file,               \* content of the file at metadata.path
    nb,                 \* self.nb: records per physical read
    input,              \* self.input: "None", "open" or "closed" handle
    fpos,               \* read position of self.input
    eof_len,            \* self.eof_len (NoInt when None)
    data,               \* self.data (NoData when None)
    nr,                 \* self.nr = len(data) / rlen, kept as a fraction
    b,                  \* self.b
    record_start_pos,   \* self.record_start_pos
    line,               \* self.line
    good_lines,         \* self.good_lines
    bad_lines,          \* self.bad_lines
    handles,            \* number of operating system handles held open
    open_result,        \* outcome of the last open(): "return" or an error
    result,             \* outcome of the last next()
    results,            \* outcomes of the next() calls that took a record
    calls,              \* next() calls that did not raise StopIteration
    pc,                 \* position of the caller relative to a with-block
    metadata,           \* self.metadata: the FWFMeta the reader was built on
    rdict,              \* self.rdict: the ret_dict argument of __init__
    mark,               \* what the caller noted when it closed a first pass
    context,            \* a Context.validate call: its arguments and result
    tester,             \* a Tester, the data frame checked and the outcome
    fst_reader,         \* an FSTReader and the table at its path
    wrapper             \* a CSVFileWrapper, its stream and the _read running

\* the variables of the fixed width file reader and of its caller
fwf == <<file, nb, input, fpos, eof_len, data, nr, b, record_start_pos,
         line, good_lines, bad_lines, handles, open_result, result, results,
         calls, pc, metadata, rdict, mark>>

\* the objects of the other modules
others == <<context, tester, fst_reader, wrapper>>

vars == <<fwf, others>>

\* what the caller fixes before the first call
setup == <<file, nb, metadata, rdict>>

reader == <<input, fpos, eof_len, data, nr, b, record_start_pos,
            line, good_lines, bad_lines, handles>>

----------------------------------------------------------------------------
(* Bounds of the model *)

MaxRecords == 3
MaxChunk == 3
MaxCalls == 2
MaxTokens == 2
MaxTests == 2
MaxOps == 4
MaxTable == 4
MaxBuffer == 3
MaxStream == 4
MaxSize == 3
MaxRows == 2
MaxLines == 3

----------------------------------------------------------------------------
(* Bytes and text *)

Ch == [lf |-> 10, cr |-> 13, sp |-> 32, one |-> 49, x |-> 120, bad |-> 255]

NoInt == 0 - 1
NoData == <<NoInt>>

\* F applied to the value of e: e is evaluated once, where a definition of
\* a LET is evaluated again at each of its uses
With(e, F(_)) == CHOOSE r \in {F(x) : x \in {e}} : TRUE

Min(a, c) == IF a <= c THEN a ELSE c
Max(a, c) == IF a >= c THEN a ELSE c

\* s[lo:hi] of Python for 0 <= lo, 0 <= hi: the bounds are clamped
Slice(s, lo, hi) ==
    IF lo >= Min(hi, Len(s)) THEN <<>> ELSE SubSeq(s, lo + 1, Min(hi, Len(s)))

\* the byte values the reader takes for a record terminator: [10, 13]
EolBytes == {10, 13}

\* how many bytes of s, from 0-based index i on, are contiguous CR / LF
RECURSIVE CountEol(_, _)
CountEol(s, i) ==
    IF i < Len(s) /\ s[i + 1] \in EolBytes THEN 1 + CountEol(s, i + 1) ELSE 0

\* bytes.decode("utf-8"): over the bytes of the model a byte below 128 is
\* the code point of one character, and 255 is never valid UTF-8
Utf8Valid(bs) == \A i \in 1..Len(bs) : bs[i] < 128
Utf8Decode(bs) == [i \in 1..Len(bs) |-> bs[i]]

\* str.strip(): the ASCII characters for which str.isspace() holds
Whitespace == {9, 10, 11, 12, 13, 28, 29, 30, 31, 32}

RECURSIVE LStrip(_)
LStrip(s) == IF s /= <<>> /\ Head(s) \in Whitespace THEN LStrip(Tail(s)) ELSE s

RECURSIVE RStrip(_)
RStrip(s) ==
    IF s /= <<>> /\ s[Len(s)] \in Whitespace
    THEN RStrip(SubSeq(s, 1, Len(s) - 1)) ELSE s

Strip(s) == With(LStrip(s), LAMBDA l : RStrip(l))

\* int(val) of a stripped, non-empty str: an optional sign and decimal digits
Digits == 48..57
Signs == {43, 45}
IntBody(s) == IF s /= <<>> /\ Head(s) \in Signs THEN Tail(s) ELSE s
IntParses(s) ==
    /\ IntBody(s) /= <<>>
    /\ \A i \in 1..Len(IntBody(s)) : IntBody(s)[i] \in Digits

RECURSIVE DigitsValue(_)
DigitsValue(s) ==
    IF s = <<>> THEN 0
    ELSE 10 * DigitsValue(SubSeq(s, 1, Len(s) - 1)) + (s[Len(s)] - 48)

\* an int() that drops the sign
IntValueUnsigned(s) == DigitsValue(IntBody(s))

IntValue(s) ==
    IF Head(s) = 45 THEN 0 - DigitsValue(IntBody(s)) ELSE DigitsValue(IntBody(s))

\* dateutil.parser.parse(v) on the texts of the model: one or two digits
\* that name a day of the month parse, a text holding a letter x does not
DateParses(s) ==
    /\ Len(s) \in 1..2
    /\ \A i \in 1..Len(s) : s[i] \in Digits
    /\ DigitsValue(s) \in 1..31

\* values of a decoded record
PyNone == [t |-> "None", n |-> 0, s |-> <<>>]
PyInt(n) == [t |-> "int", n |-> n, s |-> <<>>]
PyStr(s) == [t |-> "str", n |-> 0, s |-> s]
PyDate(s) == [t |-> "datetime", n |-> DigitsValue(s), s |-> <<>>]

----------------------------------------------------------------------------
(* FWFColumn, FWFMeta *)

FWFColumn(order, name, type, start, width) ==
    [name |-> name, type |-> type, ord |-> order, start |-> start,
     length |-> width[1], end |-> start + width[1], d |-> width[2]]

\* an FWFMeta whose size check is an assertion: a size that differs raises
FWFMetaAsserting(f, record_len, columns, number_of_rows, size) ==
    [rlen |-> record_len, ncol |-> Len(columns), columns |-> columns,
     nrows |-> number_of_rows, size |-> Len(f),
     warning |-> <<>>,
     raised |-> size /= NoInt /\ Len(f) /= size]

\* FWFMeta.__init__ on the file f at path: size is os.path.getsize(path);
\* an expected size (NoInt when None) that differs is logged as a warning,
\* formatted from (self.size, size) in this order, and nothing is raised
FWFMeta(f, record_len, columns, number_of_rows, size) ==
    [rlen |-> record_len, ncol |-> Len(columns), columns |-> columns,
     nrows |-> number_of_rows, size |-> Len(f),
     warning |-> IF size /= NoInt /\ Len(f) /= size
                 THEN <<Len(f), size>> ELSE <<>>,
     raised |-> FALSE]

\* what the caller passes to FWFMeta: the record length and the columns
Layout(record_len, columns) == [rlen |-> record_len, columns |-> columns]

\* the layout of the file read: four NUM columns of one byte each
Meta ==
    Layout(4, << FWFColumn(1, "c1", "NUM", 0, <<1, 0>>),
                 FWFColumn(2, "c2", "NUM", 1, <<1, 0>>),
                 FWFColumn(3, "c3", "NUM", 2, <<1, 0>>),
                 FWFColumn(4, "c4", "NUM", 3, <<1, 0>> ) >>)

----------------------------------------------------------------------------
(* FWFReader.read_record *)

\* a record is abandoned when more than this many of its fields fail
MaxFieldErrors == 3

\* a conversion that takes every NUM for an integer, whatever its scale
CoerceAnyScale(column, s) ==
    IF column.type = "NUM"
    THEN With(Strip(s), LAMBDA val :
            IF val /= <<>>
            THEN IF IntParses(val)
                 THEN [ok |-> TRUE, val |-> PyInt(IntValue(val))]
                 ELSE [ok |-> FALSE, val |-> PyNone]
            ELSE [ok |-> TRUE, val |-> PyNone])
    ELSE IF column.type = "DATE"
    THEN With(Strip(s), LAMBDA v :
            IF v /= <<>>
            THEN IF DateParses(v)
                 THEN [ok |-> TRUE, val |-> PyDate(v)]
                 ELSE [ok |-> FALSE, val |-> PyNone]
            ELSE [ok |-> TRUE, val |-> PyNone])
    ELSE [ok |-> TRUE, val |-> PyStr(s)]

\* the body of the try block for one field: [ok, val]; ok = FALSE when the
\* conversion raises
Coerce(column, s) ==
    IF column.type = "NUM" /\ column.d = 0
    THEN With(Strip(s), LAMBDA val :
            IF val /= <<>>
            THEN IF IntParses(val)
                 THEN [ok |-> TRUE, val |-> PyInt(IntValue(val))]
                 ELSE [ok |-> FALSE, val |-> PyNone]
            ELSE [ok |-> TRUE, val |-> PyNone])
    ELSE IF column.type = "DATE"
    THEN With(Strip(s), LAMBDA v :
            IF v /= <<>>
            THEN IF DateParses(v)
                 THEN [ok |-> TRUE, val |-> PyDate(v)]
                 ELSE [ok |-> FALSE, val |-> PyNone]
            ELSE [ok |-> TRUE, val |-> PyNone])
    ELSE [ok |-> TRUE, val |-> PyStr(s)]

\* a fallback that trims the text of the field
FallbackStripped(s) == PyStr(Strip(s))

\* the value appended for a field whose conversion raised: record.append(s),
\* the decoded text of the field as it is
Fallback(s) == PyStr(s)

\* an exception that carries the end of the column
RaisePosEnd(column) == column.end

\* the pos of the FTSParseException raised at a column: column.start
RaisePos(column) == column.start

\* the loop over the columns from column i on, with exc failures so far and
\* rec the values appended so far
RECURSIVE DecodeFields(_, _, _, _, _)
DecodeFields(columns, pieces, i, exc, rec) ==
    IF i > Len(columns)
    THEN [kind |-> "record", rec |-> rec, nexc |-> exc, errpos |-> NoInt]
    ELSE IF ~Utf8Valid(pieces[i])
    THEN [kind |-> "UnicodeDecodeError", rec |-> rec, nexc |-> exc,
          errpos |-> NoInt]
    ELSE With(Utf8Decode(pieces[i]), LAMBDA s :
         With(Coerce(columns[i], s), LAMBDA c :
             IF c.ok
             THEN DecodeFields(columns, pieces, i + 1, exc, Append(rec, c.val))
             ELSE IF exc + 1 > MaxFieldErrors
             THEN [kind |-> "FTSParseException",
                   rec |-> Append(rec, Fallback(s)), nexc |-> exc + 1,
                   errpos |-> RaisePos(columns[i])]
             ELSE DecodeFields(columns, pieces, i + 1, exc + 1,
                               Append(rec, Fallback(s)))))

\* where read_record leaves the cursor: past the record block and past the
\* CR / LF bytes that follow it in the buffer
CursorAfter(meta, buf, pos) ==
    (pos + meta.rlen) + CountEol(buf, pos + meta.rlen)

\* the slices of the record block raw, one per column
Pieces(meta, raw) ==
    [i \in 1..Len(meta.columns) |->
        Slice(raw, meta.columns[i].start, meta.columns[i].end)]

\* read_record on buffer buf with the cursor at pos: the block sliced (raw),
\* the new cursor (pos) and the outcome of the decoding (dec)
ReadRecord(meta, buf, pos) ==
    With(Slice(buf, pos, pos + meta.rlen), LAMBDA raw :
    With(Pieces(meta, raw), LAMBDA pieces :
        [raw |-> raw,
         pos |-> CursorAfter(meta, buf, pos),
         dec |-> DecodeFields(meta.columns, pieces, 1, 0, <<>>)]))

----------------------------------------------------------------------------
(* The files read *)

Fill(c, n) == [i \in 1..n |-> c]

\* the records a file is made of: all digits, all letters (every field
\* fails), one digit and letters (three fields fail), a record that starts
\* with a line feed, a record that starts with a byte that is not UTF-8
RecordKinds ==
    { Fill(Ch.one, Meta.rlen),
      Fill(Ch.x, Meta.rlen),
      <<Ch.one>> \o Fill(Ch.x, Meta.rlen - 1),
      <<Ch.lf>> \o Fill(Ch.one, Meta.rlen - 1),
      <<Ch.bad>> \o Fill(Ch.one, Meta.rlen - 1) }

\* the terminator of width w: nothing, LF or CR LF
Terminator(w) == SubSeq(<<Ch.cr, Ch.lf>>, 3 - w, 2)

RECURSIVE Body(_, _)
Body(recs, w) ==
    IF recs = <<>> THEN <<>>
    ELSE Head(recs) \o Terminator(w) \o Body(Tail(recs), w)

\* how a file ends: after the last terminator, without the last terminator,
\* with an added blank line, with the start of one more record
TailKinds == {"exact", "noterm", "blank", "partial"}

FileOf(recs, w, tail) ==
    LET body == Body(recs, w)
    IN  CASE tail = "exact" -> body
          [] tail = "noterm" -> SubSeq(body, 1, Max(Len(body) - w, 0))
          [] tail = "blank" -> body \o <<Ch.lf>>
          [] tail = "partial" -> body \o <<Ch.one>>

RecordSeqs == UNION { [1..n -> RecordKinds] : n \in 0..MaxRecords }

Files ==
    { FileOf(recs, w, tail) : recs \in RecordSeqs, w \in 0..2, tail \in TailKinds }

----------------------------------------------------------------------------
(* FWFReader *)

\* the outcome of a next(): how it ended (kind), the value returned (ret),
\* and of the record taken the block (raw), its offset in the file (off),
\* the list read_record built (rec), the failures counted (nexc) and the
\* pos of the FTSParseException (errpos)
Outcome(kind) ==
    [kind |-> kind, ret |-> <<>>, rec |-> <<>>, raw |-> <<>>, off |-> NoInt,
     errpos |-> NoInt, nexc |-> 0]

\* FWFReader.__init__: the attributes of a new reader, and a caller that
\* has called nothing yet
NewReader ==
    /\ input = "None"
    /\ fpos = 0
    /\ eof_len = NoInt
    /\ data = NoData
    /\ nr = [num |-> 0, den |-> 1]
    /\ b = 0
    /\ record_start_pos = 0
    /\ line = 0
    /\ good_lines = 0
    /\ bad_lines = 0
    /\ handles = 0
    /\ open_result = "None"
    /\ result = Outcome("None")
    /\ results = <<>>
    /\ calls = 0
    /\ pc = "idle"
    /\ mark = <<>>

\* an object that was not created
Absent == [state |-> "absent"]

\* none of the objects of the other modules exists
NoOthers ==
    /\ context = Absent
    /\ tester = Absent
    /\ fst_reader = Absent
    /\ wrapper = Absent

\* FWFReader.__init__: self.nb = 1000
DefaultChunk == 1000

\* the chunk sizes of a reader: the one of __init__, and the small ones a
\* caller assigns to the attribute nb before it opens the reader
ChunkSizes == (1..MaxChunk) \cup {DefaultChunk}

\* a reader over a file of the file system, built on the layout Meta with
\* the default ret_dict
Init ==
    /\ NoOthers
    /\ file \in Files
    /\ nb \in ChunkSizes
    /\ metadata = FWFMeta(file, Meta.rlen, Meta.columns, NoInt, NoInt)
    /\ rdict = FALSE
    /\ NewReader

----------------------------------------------------------------------------
(* Layouts with columns of every type, and the records read with them *)

\* a NUM of two bytes, a DATE of two bytes, a CHAR of one byte and a NUM
\* with a decimal scale of one byte
MixedLayout ==
    Layout(6, << FWFColumn(1, "n", "NUM", 0, <<2, 0>>),
                 FWFColumn(2, "d", "DATE", 2, <<2, 0>>),
                 FWFColumn(3, "s", "CHAR", 4, <<1, 0>>),
                 FWFColumn(4, "q", "NUM", 5, <<1, 2>>) >>)

\* five NUM columns of one byte, listed in another order than their bytes
ShuffledLayout ==
    Layout(5, << FWFColumn(1, "c1", "NUM", 4, <<1, 0>>),
                 FWFColumn(2, "c2", "NUM", 2, <<1, 0>>),
                 FWFColumn(3, "c3", "NUM", 0, <<1, 0>>),
                 FWFColumn(4, "c4", "NUM", 3, <<1, 0>>),
                 FWFColumn(5, "c5", "NUM", 1, <<1, 0>>) >>)

\* a NUM without scale and a CHAR, of two bytes each, in both orders
NumCharLayout ==
    Layout(4, << FWFColumn(1, "n", "NUM", 0, <<2, 0>>),
                 FWFColumn(2, "s", "CHAR", 2, <<2, 0>>) >>)

CharNumLayout ==
    Layout(4, << FWFColumn(1, "s", "CHAR", 0, <<2, 0>>),
                 FWFColumn(2, "n", "NUM", 2, <<2, 0>>) >>)

\* all the blocks of n bytes over an alphabet
Blocks(alphabet, n) == [1..n -> alphabet]

\* the decimal text of an integer, as str(n) gives it
RECURSIVE DigitText(_)
DigitText(n) ==
    IF n < 10 THEN <<48 + n>> ELSE DigitText(n \div 10) \o <<48 + (n % 10)>>

IntText(n) == IF n < 0 THEN <<45>> \o DigitText(0 - n) ELSE DigitText(n)

\* the values written into a field of two bytes: no value and integers for
\* a NUM, texts of up to two characters for a CHAR
WrittenInts == {0, 1, 4, 9, 10, 41, 99, 0 - 1, 0 - 9}

WrittenTexts == UNION { [1..n -> {Ch.sp, Ch.one, Ch.x}] : n \in 0..2 }

FieldValues(column) ==
    IF column.type = "NUM"
    THEN {PyNone} \cup {PyInt(n) : n \in {m \in WrittenInts :
                                            Len(IntText(m)) <= column.length}}
    ELSE {PyStr(s) : s \in {u \in WrittenTexts : Len(u) <= column.length}}

\* a value written into the bytes of its column: an integer as its decimal
\* text flush right, a text flush left, no value as blanks, padded with
\* spaces to the width of the column
EncodeField(column, v) ==
    IF v.t = "None" THEN Fill(Ch.sp, column.length)
    ELSE IF v.t = "int"
    THEN Fill(Ch.sp, column.length - Len(IntText(v.n))) \o IntText(v.n)
    ELSE v.s \o Fill(Ch.sp, column.length - Len(v.s))

\* the record of a layout whose columns cover its bytes without overlap
EncodeRecord(layout, values) ==
    [k \in 1..layout.rlen |->
        LET c == CHOOSE c \in 1..Len(layout.columns) :
                     /\ layout.columns[c].start < k
                     /\ k <= layout.columns[c].end
        IN  EncodeField(layout.columns[c], values[c])[k - layout.columns[c].start]]

ValueTuples(layout) ==
    { vs \in [1..Len(layout.columns) ->
                 UNION {FieldValues(layout.columns[c]) :
                           c \in 1..Len(layout.columns)}] :
         \A c \in 1..Len(layout.columns) :
            vs[c] \in FieldValues(layout.columns[c]) }

\* a layout and the first record of a file read with it
Cases ==
    { [layout |-> MixedLayout, block |-> bl] :
         bl \in Blocks({Ch.sp, Ch.one, Ch.x}, MixedLayout.rlen) }
    \cup { [layout |-> ShuffledLayout, block |-> bl] :
              bl \in Blocks({Ch.one, Ch.x, Ch.bad}, ShuffledLayout.rlen) }
    \cup { [layout |-> NumCharLayout, block |-> EncodeRecord(NumCharLayout, vs)] :
              vs \in ValueTuples(NumCharLayout) }
    \cup { [layout |-> CharNumLayout, block |-> EncodeRecord(CharNumLayout, vs)] :
              vs \in ValueTuples(CharNumLayout) }

\* the file of a case: its record and a record of digits, one per line
RecordFile(case) ==
    case.block \o <<Ch.lf>> \o Fill(Ch.one, case.layout.rlen) \o <<Ch.lf>>

\* a reader built on the FWFMeta of a case, with the expected size absent,
\* equal to the size of the file or different from it, and with either
\* value of ret_dict
RecordInit ==
    /\ NoOthers
    /\ \E case \in Cases :
       \E size \in {NoInt, Len(RecordFile(case)), Len(RecordFile(case)) + 1} :
          /\ file = RecordFile(case)
          /\ metadata = FWFMeta(file, case.layout.rlen, case.layout.columns,
                                NoInt, size)
    /\ nb = DefaultChunk
    /\ rdict \in BOOLEAN
    /\ NewReader

\* a sniffing without the with statement: f stays open when it raises
DetectEofLeaking(f, rlen) ==
    LET n == CountEol(f, rlen)
    IN  [eof_len |-> n, raised |-> rlen + n >= Len(f),
         leaked |-> IF rlen + n >= Len(f) THEN 1 ELSE 0]

\* the terminator sniffing of open(): f.read(rlen), then f.read(1)[0] while
\* it is CR or LF.  At the end of the file f.read(1) is empty and indexing
\* it raises IndexError, after eof_len was set to the count so far.  The
\* with statement closes f on both paths (leaked = 0).
DetectEof(f, rlen) ==
    LET n == CountEol(f, rlen)
    IN  [eof_len |-> n, raised |-> rlen + n >= Len(f), leaked |-> 0]

\* an open() that does not look at the handle it holds
OpenCallReopening ==
    LET det == IF eof_len = NoInt
               THEN DetectEof(file, metadata.rlen)
               ELSE [eof_len |-> eof_len, raised |-> FALSE, leaked |-> 0]
    IN  /\ eof_len' = det.eof_len
        /\ IF det.raised
           THEN /\ open_result' = "IndexError"
                /\ handles' = handles + det.leaked
                /\ UNCHANGED <<input, fpos>>
           ELSE /\ open_result' = "return"
                /\ input' = "open"
                /\ fpos' = 0
                /\ handles' = handles + det.leaked + 1
        /\ UNCHANGED <<data, nr, b, record_start_pos, line, good_lines,
                       bad_lines>>

\* FWFReader.open
OpenCall ==
    IF input /= "None"
    THEN /\ open_result' = "return"
         /\ UNCHANGED reader
    ELSE LET det == IF eof_len = NoInt
                    THEN DetectEof(file, metadata.rlen)
                    ELSE [eof_len |-> eof_len, raised |-> FALSE, leaked |-> 0]
         IN  /\ eof_len' = det.eof_len
             /\ IF det.raised
                THEN /\ open_result' = "IndexError"
                     /\ handles' = handles + det.leaked
                     /\ UNCHANGED <<input, fpos>>
                ELSE /\ open_result' = "return"
                     /\ input' = "open"
                     /\ fpos' = 0
                     /\ handles' = handles + det.leaked + 1
             /\ UNCHANGED <<data, nr, b, record_start_pos, line, good_lines,
                            bad_lines>>

\* FWFReader.close
CloseCall ==
    /\ IF input = "open"
       THEN input' = "closed" /\ handles' = handles - 1
       ELSE UNCHANGED <<input, handles>>
    /\ UNCHANGED <<fpos, eof_len, data, nr, b, record_start_pos, line,
                   good_lines, bad_lines>>

\* a refill test that does not read again after an empty read
NeedRefillNotEmpty == data = NoData \/ (b * nr.den >= nr.num /\ Len(data) > 0)

\* the refill test of next(): self.data is None or self.b >= self.nr, with
\* nr the true quotient len(data) / rlen
NeedRefill == data = NoData \/ b * nr.den >= nr.num

\* the bytes one refill asks for: (rlen + eof_len) * nb
ChunkBytes == (metadata.rlen + eof_len) * nb

\* a reader that takes a short read for the end of the file
ExhaustedOnShortRead(chunk) == Len(chunk) < ChunkBytes

\* the end-of-sequence test of next() on the bytes a refill returned
Exhausted(chunk) == Len(chunk) = 0

\* a mapping built from all the columns but the last
RecordDictShort(columns, ncol, record) ==
    [name \in {columns[i].name : i \in 1..(ncol - 1)} |->
        record[CHOOSE i \in 1..(ncol - 1) :
                  /\ columns[i].name = name
                  /\ \A j \in 1..(ncol - 1) : columns[j].name = name => j <= i]]

\* {columns[i].name: record[i] for i in range(ncol)}: a name is a key once,
\* with the value of the last column of this name
RecordDict(columns, ncol, record) ==
    [name \in {columns[i].name : i \in 1..ncol} |->
        record[CHOOSE i \in 1..ncol :
                  /\ columns[i].name = name
                  /\ \A j \in 1..ncol : columns[j].name = name => j <= i]]

\* FWFReader.column_names
ColumnNames(m) == [i \in 1..Len(m.columns) |-> m.columns[i].name]

\* next() raised before it touched the reader
NextRaises(kind) ==
    /\ calls < MaxCalls
    /\ result' = Outcome(kind)
    /\ calls' = calls + 1
    /\ UNCHANGED <<reader, results>>

\* the try block of next() on buffer buf, which starts at offset base of
\* the file, with b0 records taken from it and the cursor at pos0
\* what the caller of next() gets for the outcome r of read_record on the
\* block at offset off of the file
NextOutcome(r, off) ==
    [kind |-> IF r.dec.kind = "FTSParseException" THEN "rejected"
              ELSE r.dec.kind,
     ret |-> IF r.dec.kind = "record"
             THEN IF rdict
                  THEN RecordDict(metadata.columns, metadata.ncol, r.dec.rec)
                  ELSE r.dec.rec
             ELSE IF r.dec.kind = "FTSParseException" THEN PyNone
             ELSE <<>>,
     rec |-> IF r.dec.kind = "record" THEN r.dec.rec ELSE <<>>,
     raw |-> r.raw, off |-> off,
     errpos |-> r.dec.errpos, nexc |-> r.dec.nexc]

TakeRecord(buf, base, b0, pos0) ==
    \E r \in {ReadRecord(metadata, buf, pos0)} :
    \E out \in {NextOutcome(r, base + pos0)} :
        /\ line' = line + 1
        /\ b' = b0 + 1
        /\ record_start_pos' = r.pos
        /\ good_lines' = IF r.dec.kind = "record" THEN good_lines + 1
                         ELSE good_lines
        /\ bad_lines' = IF r.dec.kind = "FTSParseException" THEN bad_lines + 1
                        ELSE bad_lines
        /\ result' = out
        /\ results' = Append(results, out)
        /\ calls' = calls + 1

\* FWFReader.next
NextCall ==
    IF NeedRefill
    THEN IF eof_len = NoInt THEN NextRaises("TypeError")
         ELSE IF input = "None" THEN NextRaises("AttributeError")
         ELSE IF input = "closed" THEN NextRaises("ValueError")
         ELSE \E chunk \in {Slice(file, fpos, fpos + ChunkBytes)} :
                  /\ data' = chunk
                  /\ fpos' = fpos + Len(chunk)
                  /\ UNCHANGED <<input, eof_len, handles>>
                  /\ IF Exhausted(chunk)
                     THEN /\ result' = Outcome("StopIteration")
                          /\ UNCHANGED <<nr, b, record_start_pos, line,
                                         good_lines, bad_lines, results, calls>>
                     ELSE /\ nr' = [num |-> Len(chunk),
                                    den |-> metadata.rlen + eof_len]
                          /\ TakeRecord(chunk, fpos, 0, 0)
    ELSE /\ TakeRecord(data, fpos - Len(data), b, record_start_pos)
         /\ UNCHANGED <<input, fpos, eof_len, data, nr, handles>>

----------------------------------------------------------------------------
(* The caller *)

\* the caller pulls from a reader only after an open() of it returned
Opened == input /= "None"

OpenAct ==
    /\ pc = "idle"
    /\ OpenCall
    /\ UNCHANGED <<setup, others, mark, result, results, calls, pc>>

CloseAct ==
    /\ pc = "idle"
    /\ CloseCall
    /\ UNCHANGED <<setup, others, mark, open_result, result, results, calls, pc>>

NextAct ==
    /\ pc = "idle"
    /\ Opened
    /\ NextCall
    /\ UNCHANGED <<setup, others, mark, open_result, pc>>

Next == OpenAct \/ CloseAct \/ NextAct

Spec == Init /\ [][Next]_vars

\* repeated pulls from a reader that is opened and not closed
LiveNext == OpenAct \/ NextAct

LiveSpec == Init /\ [][LiveNext]_vars /\ WF_vars(NextAct)

\* the records of the layouts with columns of every type, read to the end
RecordSpec == RecordInit /\ [][LiveNext]_vars

----------------------------------------------------------------------------
(* The reader as a scoped resource: with reader: ... *)

\* __enter__: open(), and the block is entered when open() returned
EnterAct ==
    /\ pc \in {"idle", "failed"}
    /\ OpenCall
    /\ pc' = IF open_result' = "return" THEN "in" ELSE "failed"
    /\ UNCHANGED <<setup, others, mark, result, results, calls>>

\* the outcomes of next() that leave the block by an exception; a
\* StopIteration ends the for statement that pulls, inside the block
Propagates(kind) == kind \notin {"record", "rejected", "StopIteration"}

\* a pull inside the block
BodyNextAct ==
    /\ pc = "in"
    /\ NextCall
    /\ pc' = IF Propagates(result'.kind) THEN "raising" ELSE "in"
    /\ UNCHANGED <<setup, others, mark, open_result>>

\* another statement of the block raises
BodyRaiseAct ==
    /\ pc = "in"
    /\ pc' = "raising"
    /\ UNCHANGED <<setup, others, mark, reader, open_result, result, results, calls>>

\* __exit__, on the normal end of the block and on an exception
ExitAct ==
    /\ pc \in {"in", "raising"}
    /\ CloseCall
    /\ pc' = "done"
    /\ UNCHANGED <<setup, others, mark, open_result, result, results, calls>>

ScopedNext == EnterAct \/ BodyNextAct \/ BodyRaiseAct \/ ExitAct

ScopedSpec == Init /\ [][ScopedNext]_vars

----------------------------------------------------------------------------
(* Two passes over the file with one reader: open, pull to the end, close,
   open again, pull to the end *)

PassOpenAct ==
    /\ pc = "idle"
    /\ OpenCall
    /\ pc' = IF open_result' = "return" THEN "pass1" ELSE "idle"
    /\ UNCHANGED <<setup, others, mark, result, results, calls>>

PassNextAct ==
    /\ pc \in {"pass1", "pass2"}
    /\ NextCall
    /\ UNCHANGED <<setup, others, mark, open_result, pc>>

\* the first pass ended: the caller notes how many records it took and the
\* counters of the reader, and closes
PassCloseAct ==
    /\ pc = "pass1"
    /\ result.kind = "StopIteration"
    /\ CloseCall
    /\ mark' = <<Len(results), good_lines, bad_lines>>
    /\ pc' = "closed"
    /\ UNCHANGED <<setup, others, open_result, result, results, calls>>

\* the second open(); the caller has pulled nothing yet in the second pass
ReopenAct ==
    /\ pc = "closed"
    /\ OpenCall
    /\ result' = Outcome("None")
    /\ pc' = IF open_result' = "return" THEN "pass2" ELSE "closed"
    /\ UNCHANGED <<setup, others, mark, results, calls>>

TwoPassNext == PassOpenAct \/ PassNextAct \/ PassCloseAct \/ ReopenAct

TwoPassSpec == Init /\ [][TwoPassNext]_vars

----------------------------------------------------------------------------
(* A caller that keeps a log of its calls, in any order *)

\* a reader with the chunk size of __init__
LogInit ==
    /\ Init
    /\ nb = DefaultChunk

LogOpenAct ==
    /\ Len(mark) < MaxOps
    /\ OpenCall
    /\ mark' = Append(mark, "open")
    /\ UNCHANGED <<setup, others, result, results, calls, pc>>

LogNextAct ==
    /\ Len(mark) < MaxOps
    /\ Opened
    /\ NextCall
    /\ mark' = Append(mark, "next")
    /\ UNCHANGED <<setup, others, open_result, pc>>

LogCloseAct ==
    /\ Len(mark) < MaxOps
    /\ CloseCall
    /\ mark' = Append(mark, "close")
    /\ UNCHANGED <<setup, others, open_result, result, results, calls, pc>>

LogNext == LogOpenAct \/ LogNextAct \/ LogCloseAct

LogSpec == LogInit /\ [][LogNext]_vars

----------------------------------------------------------------------------
(* A caller that goes on pulling after the end of the sequence *)

\* a pull; the caller notes in mark the pulls it makes after a pull that
\* signalled the end of the sequence
AgainAct ==
    /\ pc = "idle"
    /\ Opened
    /\ Len(mark) < MaxCalls
    /\ NextCall
    /\ mark' = IF result.kind = "StopIteration" THEN Append(mark, "again")
               ELSE mark
    /\ UNCHANGED <<setup, others, open_result, pc>>

AgainNext == OpenAct \/ AgainAct

AgainSpec == Init /\ [][AgainNext]_vars

----------------------------------------------------------------------------
(* Context.validate (utils/context.py) *)

\* the variables of the reader when no reader is used
NoFwf ==
    /\ file = <<>>
    /\ nb = 1
    /\ metadata = Absent
    /\ rdict = FALSE
    /\ NewReader

\* a str argument and a list argument of validate
PyList(items) == [t |-> "list", items |-> items]

\* y.split(sep) for a separator of one character
RECURSIVE Split(_, _)
Split(s, sep) ==
    IF \A i \in 1..Len(s) : s[i] /= sep THEN <<s>>
    ELSE LET k == CHOOSE k \in 1..Len(s) :
                     s[k] = sep /\ \A j \in 1..(k - 1) : s[j] /= sep
         IN  <<SubSeq(s, 1, k - 1)>> \o Split(SubSeq(s, k + 1, Len(s)), sep)

\* int(s) of a str: surrounding whitespace is ignored; ok = FALSE when it
\* raises ValueError
ParseInt(s) ==
    IF IntParses(Strip(s)) THEN [ok |-> TRUE, n |-> IntValue(Strip(s))]
    ELSE [ok |-> FALSE, n |-> 0]

\* list(range(y1, y2))
Range(y1, y2) == [i \in 1..(y2 - y1) |-> y1 + i - 1]

\* the years one token adds: [ok, years]
TokenYears(y) ==
    IF \E i \in 1..Len(y) : y[i] = 58
    THEN LET x == Split(y, 58)
         IN  IF ParseInt(x[1]).ok /\ ParseInt(x[2]).ok
             THEN [ok |-> TRUE,
                   years |-> Range(ParseInt(x[1]).n, ParseInt(x[2]).n + 1)]
             ELSE [ok |-> FALSE, years |-> <<>>]
    ELSE IF ParseInt(y).ok THEN [ok |-> TRUE, years |-> <<ParseInt(y).n>>]
    ELSE [ok |-> FALSE, years |-> <<>>]

\* the loop over the tokens from token i on, years being the list so far
RECURSIVE CollectYears(_, _, _)
CollectYears(value, i, years) ==
    IF i > Len(value) THEN [ok |-> TRUE, years |-> years]
    ELSE IF TokenYears(value[i]).ok
    THEN CollectYears(value, i + 1, years \o TokenYears(value[i]).years)
    ELSE [ok |-> FALSE, years |-> years]

\* sorted(l) of a list of integers
RECURSIVE Insert(_, _)
Insert(l, n) ==
    IF l = <<>> THEN <<n>>
    ELSE IF n < Head(l) THEN <<n>> \o l
    ELSE <<Head(l)>> \o Insert(Tail(l), n)

RECURSIVE Sorted(_)
Sorted(l) == IF l = <<>> THEN <<>> ELSE Insert(Sorted(Tail(l)), Head(l))

\* a validate that returns the years in the order of the tokens
ValidateUnsorted(attr, value) ==
    IF attr = "years"
    THEN LET c == CollectYears(IF value.t = "str" THEN <<value.s>>
                              ELSE value.items, 1, <<>>)
         IN  IF c.ok THEN [kind |-> "return", ret |-> PyList(c.years)]
             ELSE [kind |-> "ValueError", ret |-> PyNone]
    ELSE [kind |-> "return", ret |-> value]

\* Context.validate(attr, value): [kind, ret]
Validate(attr, value) ==
    IF attr = "years"
    THEN LET c == CollectYears(IF value.t = "str" THEN <<value.s>>
                              ELSE value.items, 1, <<>>)
         IN  IF c.ok THEN [kind |-> "return", ret |-> PyList(Sorted(c.years))]
             ELSE [kind |-> "ValueError", ret |-> PyNone]
    ELSE [kind |-> "return", ret |-> value]

\* what the caller means by a token: one year, or the years a to b
Year(n) == [a |-> n, b |-> n, single |-> TRUE]
Years(y1, y2) == [a |-> y1, b |-> y2, single |-> FALSE]

MeantTokens ==
    { Year(3), Year(12), Year(1990), Years(2, 4), Years(4, 2), Years(5, 5),
      Years(11, 13), Years(1990, 1993) }

\* the text of a token as it is given on the command line
TokenText(m) ==
    IF m.single THEN IntText(m.a) ELSE IntText(m.a) \o <<58>> \o IntText(m.b)

\* texts that are no year and no range of years
OtherTexts == { <<Ch.x>>, <<Ch.one, 58>>, <<58>> }

\* the lists of up to MaxTokens tokens
MeantLists == UNION { [1..n -> MeantTokens] : n \in 0..MaxTokens }

ListText(ms) == [i \in 1..Len(ms) |-> TokenText(ms[i])]

\* the values validate is called with: a list of tokens, one token as a
\* str, and lists that hold a text that is no token
ValidateArguments ==
    { PyList(ListText(ms)) : ms \in MeantLists }
    \cup { PyStr(TokenText(m)) : m \in MeantTokens }
    \cup { PyList(<<u>>) : u \in OtherTexts }
    \cup { PyList(<<TokenText(m), u>>) : m \in MeantTokens, u \in OtherTexts }

ContextInit ==
    /\ NoFwf
    /\ tester = Absent
    /\ fst_reader = Absent
    /\ wrapper = Absent
    /\ \E attr \in {"years", "compress"} : \E value \in ValidateArguments :
          context = [state |-> "called", attr |-> attr, value |-> value,
                     kind |-> "None", ret |-> PyNone]

ValidateAct ==
    /\ context.state = "called"
    /\ \E r \in {Validate(context.attr, context.value)} :
          context' = [context EXCEPT !.state = "done", !.kind = r.kind,
                                     !.ret = r.ret]
    /\ UNCHANGED <<fwf, tester, fst_reader, wrapper>>

ContextSpec == ContextInit /\ [][ValidateAct]_vars

----------------------------------------------------------------------------
(* Test and Tester (qc/tester.py) *)

\* a number as a fraction of integers with a positive denominator, and the
\* missing value of a column
Num(n, d) == [t |-> "number", num |-> n, den |-> d, s |-> ""]
NaN == [t |-> "nan", num |-> 0, den |-> 1, s |-> ""]

\* the value of a test that has none, and the name of a type
NoVal == [t |-> "None", num |-> 0, den |-> 1, s |-> ""]
TypeVal(s) == [t |-> "str", num |-> 0, den |-> 1, s |-> s]

\* x < y and x > y of two numbers; both are False when one is NaN
Less(x, y) ==
    /\ x.t = "number"
    /\ y.t = "number"
    /\ x.num * y.den < y.num * x.den
Greater(x, y) == Less(y, x)

\* a data frame with the one variable x: the values of its rows
Frames == UNION { [1..n -> {NaN, Num(0, 1), Num(5, 1), Num(7, 1)}] :
                     n \in 0..MaxRows }

\* type(df.loc[0, variable]).__name__: pandas holds a column with a missing
\* value as float64
TypeName(df) ==
    IF \E i \in 1..Len(df) : df[i].t = "nan" THEN "float64" ELSE "int64"

\* sum(np.isnan(df[variable]))
CountNaN(df) == Cardinality({i \in 1..Len(df) : df[i].t = "nan"})

\* Test._validate_test: the ExpectationError for a count_missing test that
\* expects fewer than 0 missing rows
ValidTest(condition, val) ==
    ~(condition = "count_missing" /\ Less(val, Num(0, 1)))

\* Test.__init__
Test(variable, condition, severity, val) ==
    [variable |-> variable, condition |-> condition, severity |-> severity,
     val |-> val]

\* the arguments tests are built with
TestArguments ==
    { Test("x", c, "warning", Num(5, 1)) : c \in {"less_than", "greater_than"} }
    \cup { Test("x", "no_missing", "warning", NoVal) }
    \cup { Test("x", "data_type", "warning", TypeVal(ty)) :
               ty \in {"int64", "float64"} }
    \cup { Test("x", "count_missing", "warning", v) :
               v \in {Num(0 - 1, 1), Num(0, 1), Num(1, 2), Num(1, 1), Num(2, 1)} }

\* Test.check(df): [kind, result]; kind is the exception when it raises
TestCheck(t, df) ==
    IF t.condition = "count_missing"
    THEN IF Less(t.val, Num(1, 1)) /\ Greater(t.val, Num(0, 1))
         THEN IF Len(df) = 0
              THEN [kind |-> "ZeroDivisionError", result |-> FALSE]
              ELSE [kind |-> "return",
                    result |-> Less(Num(CountNaN(df), Len(df)), t.val)]
         ELSE [kind |-> "return", result |-> Less(Num(CountNaN(df), 1), t.val)]
    ELSE IF t.condition = "data_type"
    THEN IF Len(df) = 0 THEN [kind |-> "KeyError", result |-> FALSE]
         ELSE [kind |-> "return", result |-> TypeName(df) = t.val.s]
    ELSE LET count ==
                 IF t.condition = "less_than"
                 THEN Cardinality({i \in 1..Len(df) : Greater(df[i], t.val)})
                 ELSE IF t.condition = "greater_than"
                 THEN Cardinality({i \in 1..Len(df) : Less(df[i], t.val)})
                 ELSE CountNaN(df)
         IN  [kind |-> "return", result |-> count = 0]

\* a loop that stops at the first test that fails
RECURSIVE TesterLoopShort(_, _, _, _, _, _)
TesterLoopShort(tests, df, i, out, num_tests, num_failures) ==
    IF i > Len(tests) \/ ~out
    THEN [kind |-> "return", out |-> out, num_tests |-> num_tests,
          num_failures |-> num_failures]
    ELSE LET r == TestCheck(tests[i], df)
         IN  IF r.kind /= "return"
             THEN [kind |-> r.kind, out |-> out, num_tests |-> num_tests + 1,
                   num_failures |-> num_failures]
             ELSE TesterLoopShort(tests, df, i + 1, out /\ r.result,
                                  num_tests + 1,
                                  IF r.result THEN num_failures
                                  ELSE num_failures + 1)

\* the loop of Tester.check from test i on
RECURSIVE TesterLoop(_, _, _, _, _, _)
TesterLoop(tests, df, i, out, num_tests, num_failures) ==
    IF i > Len(tests)
    THEN [kind |-> "return", out |-> out, num_tests |-> num_tests,
          num_failures |-> num_failures]
    ELSE LET r == TestCheck(tests[i], df)
         IN  IF r.kind /= "return"
             THEN [kind |-> r.kind, out |-> out, num_tests |-> num_tests + 1,
                   num_failures |-> num_failures]
             ELSE TesterLoop(tests, df, i + 1, out /\ r.result,
                             num_tests + 1,
                             IF r.result THEN num_failures
                             ELSE num_failures + 1)

\* Tester.__init__ without a yaml file, and the data frame to be checked
TesterInit ==
    /\ NoFwf
    /\ context = Absent
    /\ fst_reader = Absent
    /\ wrapper = Absent
    /\ \E df \in Frames :
          tester = [state |-> "built", tests |-> <<>>, df |-> df,
                    kind |-> "None", out |-> TRUE, num_tests |-> 0,
                    num_failures |-> 0, passes |-> 0, rejected |-> 0]

\* Tester.add(Test(...)): a test whose construction raises is not added
AddAct ==
    /\ tester.state = "built"
    /\ Len(tester.tests) + tester.rejected < MaxTests
    /\ \E t \in TestArguments :
          tester' = IF ValidTest(t.condition, t.val)
                    THEN [tester EXCEPT !.tests = Append(@, t)]
                    ELSE [tester EXCEPT !.rejected = @ + 1]
    /\ UNCHANGED <<fwf, context, fst_reader, wrapper>>

\* Tester.check(df)
CheckAct ==
    /\ tester.state = "built"
    /\ \E r \in {TesterLoop(tester.tests, tester.df, 1, TRUE, 0, 0)} :
          tester' = [tester EXCEPT
                        !.state = IF r.kind = "return" THEN "checked"
                                  ELSE "raised",
                        !.kind = r.kind, !.out = r.out,
                        !.num_tests = r.num_tests,
                        !.num_failures = r.num_failures,
                        !.passes = r.num_tests - r.num_failures]
    /\ UNCHANGED <<fwf, context, fst_reader, wrapper>>

TesterNext == AddAct \/ CheckAct

TesterSpec == TesterInit /\ [][TesterNext]_vars

----------------------------------------------------------------------------
(* FSTReader (utils/pyfst.py) *)

\* rows from..to of a table of n rows, the row k standing for its values
Block(from, to) == [i \in 1..(IF to >= from THEN to - from + 1 ELSE 0) |->
                      from + i - 1]

\* the R function read_fst(path, NULL, from, to) of package fst on a table
\* of n rows: the rows from..min(to, n), and an error for a first row that
\* is not in the table
RReadFst(n, from, to) ==
    IF from < 1 \/ from > n
    THEN [kind |-> "RRuntimeError", rows |-> <<>>]
    ELSE [kind |-> "return", rows |-> Block(from, Min(to, n))]

\* read_fst(path, start, end) with an end: the frame and the flag complete
ReadFst(n, start, end) ==
    LET df == RReadFst(n, start, end)
    IN  [kind |-> df.kind, rows |-> df.rows,
         complete |-> Len(df.rows) <= end - start]

\* FSTReader.__init__
FSTReader(n, buffer_size) ==
    [state |-> "new", table |-> n, buffer_size |-> buffer_size,
     columns |-> [none |-> TRUE, rows |-> <<>>], pointer |-> 1, last |-> 0,
     first |-> 0, complete |-> FALSE, out |-> "None", r |-> NoInt,
     rows |-> <<>>]

\* FSTReader.read_next on the reader o: [kind, o]
ReadNext(o) ==
    LET got == ReadFst(o.table, o.pointer, o.pointer + o.buffer_size - 1)
    IN  IF got.kind /= "return"
        THEN [kind |-> got.kind, o |-> [o EXCEPT !.first = o.pointer]]
        ELSE [kind |-> "return",
              o |-> [o EXCEPT !.first = o.pointer,
                              !.complete = got.complete,
                              !.last = o.pointer + Len(got.rows),
                              !.columns = [none |-> FALSE,
                                           rows |-> got.rows]]]

\* FSTReader.current on the reader o: [kind, none, idx, o]; none says that
\* it returns None
Current(o) ==
    IF o.pointer >= o.last
    THEN IF o.complete
         THEN [kind |-> "return", none |-> TRUE, idx |-> 0, o |-> o]
         ELSE LET rn == ReadNext(o)
              IN  IF rn.kind /= "return"
                  THEN [kind |-> rn.kind, none |-> TRUE, idx |-> 0,
                        o |-> rn.o]
                  ELSE IF rn.o.pointer >= rn.o.last
                  THEN [kind |-> "return", none |-> TRUE, idx |-> 0,
                        o |-> rn.o]
                  ELSE [kind |-> "return", none |-> FALSE,
                        idx |-> rn.o.pointer - rn.o.first, o |-> rn.o]
    ELSE [kind |-> "return", none |-> FALSE, idx |-> o.pointer - o.first,
          o |-> o]

\* FSTReader.current_row on the reader o: [kind, row, o]; the row is the
\* element idx of every column, where a negative idx counts from the end
CurrentRow(o) ==
    LET c == Current(o)
        n == Len(c.o.columns.rows)
    IN  IF c.kind /= "return" THEN [kind |-> c.kind, row |-> 0, o |-> c.o]
        ELSE IF c.none THEN [kind |-> "None", row |-> 0, o |-> c.o]
        ELSE IF c.o.columns.none
        THEN [kind |-> "TypeError", row |-> 0, o |-> c.o]
        ELSE IF c.idx >= n \/ c.idx < 0 - n
        THEN [kind |-> "IndexError", row |-> 0, o |-> c.o]
        ELSE [kind |-> "row",
              row |-> c.o.columns.rows[IF c.idx >= 0 THEN c.idx + 1
                                       ELSE n + c.idx + 1],
              o |-> [c.o EXCEPT !.r = c.idx]]

\* a reader over a table of the file system
FstInit ==
    /\ NoFwf
    /\ context = Absent
    /\ tester = Absent
    /\ wrapper = Absent
    /\ \E n \in 1..MaxTable, size \in 1..MaxBuffer :
          fst_reader = FSTReader(n, size)

\* FSTReader.open: rewind(), which reads when the pointer is not 1, then
\* read_next()
FstOpenAct ==
    /\ fst_reader.state /= "failed"
    /\ LET rw == IF fst_reader.pointer = 1
                 THEN [kind |-> "return", o |-> fst_reader]
                 ELSE ReadNext([fst_reader EXCEPT !.pointer = 1])
           rn == IF rw.kind = "return" THEN ReadNext(rw.o) ELSE rw
       IN  fst_reader' = [rn.o EXCEPT
                             !.state = IF rn.kind = "return" THEN "opened"
                                       ELSE "failed",
                             !.out = IF rn.kind = "return" THEN "None"
                                     ELSE rn.kind,
                             !.rows = <<>>, !.r = NoInt]
    /\ UNCHANGED <<fwf, context, tester, wrapper>>

\* FSTReader.__next__ with returns_mapping = False
FstNextAct ==
    /\ fst_reader.state \in {"opened", "closed"}
    /\ LET c == CurrentRow(fst_reader)
       IN  fst_reader' =
               IF c.kind = "row"
               THEN [c.o EXCEPT !.pointer = @ + 1, !.out = "row",
                                !.rows = Append(@, c.row)]
               ELSE IF c.kind = "None"
               THEN [c.o EXCEPT !.out = "StopIteration"]
               ELSE [c.o EXCEPT !.out = c.kind]
    /\ UNCHANGED <<fwf, context, tester, wrapper>>

\* FSTReader.close
FstCloseAct ==
    /\ fst_reader.state \in {"new", "opened"}
    /\ fst_reader' = [fst_reader EXCEPT
                          !.columns = [none |-> TRUE, rows |-> <<>>],
                          !.pointer = 0 - 1, !.complete = TRUE,
                          !.state = "closed", !.out = "None"]
    /\ UNCHANGED <<fwf, context, tester, wrapper>>

FstNext == FstOpenAct \/ FstNextAct \/ FstCloseAct

FstSpec == FstInit /\ [][FstNext]_vars

----------------------------------------------------------------------------
(* CSVFileWrapper (utils/io_utils.py) *)

\* s[k:] of a string, where a negative k counts from the end
From(s, k) == Slice(s, IF k < 0 THEN Max(Len(s) + k, 0) ELSE k, Len(s))

\* old in s, for a string old of two characters
Contains(s, old) == \E i \in 1..(Len(s) - 1) : <<s[i], s[i + 1]>> = old

\* s.replace(old, new) from character i on, for a string old of two
\* characters: the occurrences from left to right, none overlapping
RECURSIVE Replace(_, _, _, _)
Replace(s, old, new, i) ==
    IF i > Len(s) THEN <<>>
    ELSE IF i < Len(s) /\ <<s[i], s[i + 1]>> = old
    THEN new \o Replace(s, old, new, i + 2)
    ELSE <<s[i]>> \o Replace(s, old, new, i + 1)

\* CSVFileWrapper.__init__ with the default separator and null replacement
CSVFileWrapper(stream, size) ==
    [state |-> "idle", stream |-> stream, size |-> size,
     sep |-> <<",">>, l |-> 1,
     empty_string |-> <<",", ",">>,
     null_string |-> <<",", "N", "A", ",">>,
     empty_string_eol |-> <<",", "\n">>,
     null_string_eol |-> <<",", "N", "A", "\n">>,
     remainder |-> <<>>, line_number |-> 0, chars |-> 0, buffer |-> <<>>,
     result |-> <<>>, out |-> "None"]

\* CSVFileWrapper._replace_empty
RECURSIVE ReplaceEmpty(_, _)
ReplaceEmpty(w, s) ==
    IF Contains(s, w.empty_string)
    THEN ReplaceEmpty(w, Replace(s, w.empty_string, w.null_string, 1))
    ELSE Replace(s, w.empty_string_eol, w.null_string_eol, 1)

\* the end of _read, after the buffer was filled: the remainder of the
\* call before is put in front, what is beyond size is kept, and the
\* result is counted.  The statement after that, datetime.datetime.now(),
\* raises AttributeError, the module's name datetime being the class
\* (from datetime import datetime), so that the result is not returned.
Deliver(w, buffer) ==
    LET joined == IF w.remainder /= <<>> THEN w.remainder \o buffer
                  ELSE buffer
        res == IF Len(joined) > w.size THEN Slice(joined, 0, w.size)
               ELSE joined
    IN  [w EXCEPT !.state = "raised",
                  !.out = "AttributeError",
                  !.buffer = joined,
                  !.remainder = IF Len(joined) > w.size
                                THEN From(joined, w.size - Len(joined))
                                ELSE <<>>,
                  !.result = res,
                  !.chars = @ + Len(res),
                  !.line_number =
                      @ + Cardinality({i \in 1..Len(res) : res[i] = "\n"})]

\* a wrapper around a stream of the characters of a CSV file
CsvInit ==
    /\ NoFwf
    /\ context = Absent
    /\ tester = Absent
    /\ fst_reader = Absent
    /\ \E n \in 0..MaxStream, size \in 1..MaxSize :
       \E stream \in [1..n -> {",", "a", "\n"}] :
          wrapper = CSVFileWrapper(stream, size)

\* the length of the line at the head of the stream s: up to its first
\* newline, that included, or all of s
LineLen(s) ==
    IF \E i \in 1..Len(s) : s[i] = "\n"
    THEN CHOOSE i \in 1..Len(s) :
             s[i] = "\n" /\ \A k \in 1..(i - 1) : s[k] /= "\n"
    ELSE Len(s)

\* readline(), which is _readline: a line of the stream is read, counted
\* by its length as read, and returned with its empty fields replaced
CsvReadlineAct ==
    /\ wrapper.state \in {"idle", "raised", "returned"}
    /\ wrapper.line_number < MaxLines
    /\ \E n \in {LineLen(wrapper.stream)} :
          wrapper' = [wrapper EXCEPT
                         !.state = "returned",
                         !.out = "return",
                         !.stream = From(wrapper.stream, n),
                         !.line_number = @ + 1,
                         !.chars = @ + n,
                         !.result = ReplaceEmpty(wrapper,
                                                 Slice(wrapper.stream, 0, n))]
    /\ UNCHANGED <<fwf, context, tester, fst_reader>>

\* _read(size) is called, the first time or after another call: with
\* a remainder shorter than size it reads size characters of the stream
\* and goes to the while statement; otherwise it takes the result out of
\* the remainder
CsvReadAct ==
    /\ wrapper.state \in {"idle", "raised", "returned"}
    /\ wrapper' =
          IF Len(wrapper.remainder) < wrapper.size
          THEN [wrapper EXCEPT
                   !.state = "test",
                   !.buffer = Slice(wrapper.stream, 0, wrapper.size),
                   !.stream = From(wrapper.stream, wrapper.size),
                   !.result = <<>>, !.out = "None"]
          ELSE Deliver(wrapper, <<>>)
    /\ UNCHANGED <<fwf, context, tester, fst_reader>>

\* the test of the while statement: the buffer ends with the separator;
\* when it does not, the rest of _read runs
CsvTestAct ==
    /\ wrapper.state = "test"
    /\ wrapper' =
          IF From(wrapper.buffer, 0 - wrapper.l) = wrapper.sep
          THEN [wrapper EXCEPT !.state = "body"]
          ELSE Deliver(wrapper, ReplaceEmpty(wrapper, wrapper.buffer))
    /\ UNCHANGED <<fwf, context, tester, fst_reader>>

\* the body of the while statement: one more character of the stream,
\* none at its end
CsvBodyAct ==
    /\ wrapper.state = "body"
    /\ wrapper' = [wrapper EXCEPT
                      !.state = "test",
                      !.buffer = @ \o Slice(wrapper.stream, 0, wrapper.l),
                      !.stream = From(wrapper.stream, wrapper.l)]
    /\ UNCHANGED <<fwf, context, tester, fst_reader>>

CsvNext == CsvReadAct \/ CsvReadlineAct \/ CsvTestAct \/ CsvBodyAct

\* a call of _read runs on until it ends
CsvSpec ==
    /\ CsvInit
    /\ [][CsvNext]_vars
    /\ WF_vars(CsvTestAct)
    /\ WF_vars(CsvBodyAct)

----------------------------------------------------------------------------
(* Notions the properties are stated with *)

\* bytes the layout gives one record: the record and its terminator
Stride == metadata.rlen + eof_len

\* the next() calls that took a record off the buffer and returned
Returned == {"record", "rejected"}

\* the file is n >= 1 records of rlen bytes, each followed by a run of
\* CR / LF bytes of exactly the detected width
WellFormedFile ==
    /\ eof_len /= NoInt
    /\ Len(file) >= Stride
    /\ Len(file) % Stride = 0
    /\ \A k \in 0..((Len(file) \div Stride) - 1) :
          CountEol(file, k * Stride + metadata.rlen) = eof_len

\* field i of the record block raw cannot be turned into a value: its bytes
\* do not decode, or the conversion of its text raises
FieldFails(raw, i) ==
    LET piece == Slice(raw, metadata.columns[i].start, metadata.columns[i].end)
    IN  \/ ~Utf8Valid(piece)
        \/ ~Coerce(metadata.columns[i], Utf8Decode(piece)).ok

FailingFields(raw) ==
    Cardinality({i \in 1..Len(metadata.columns) : FieldFails(raw, i)})

\* offset in the file of the buffer held
BufferBase == fpos - Len(data)

\* the indexes, in the order of the layout, of the fields of raw that fail
FailingSet(raw) == {i \in 1..Len(metadata.columns) : FieldFails(raw, i)}

\* the n-th failing field of raw in the order of the layout
NthFailing(raw, n) ==
    CHOOSE i \in FailingSet(raw) :
        Cardinality({j \in FailingSet(raw) : j <= i}) = n

\* the decoded text of field c of the record block raw
Text(raw, c) ==
    Utf8Decode(Slice(raw, metadata.columns[c].start, metadata.columns[c].end))

\* the value read_record gives field c of raw when its conversion succeeds
Converted(raw, c) == Coerce(metadata.columns[c], Text(raw, c)).val

\* field c, a DATE, is the one field of raw that fails
OnlyDateFails(raw, c) ==
    /\ FailingSet(raw) = {c}
    /\ metadata.columns[c].type = "DATE"
    /\ Utf8Valid(raw)

\* field c of raw is empty or holds nothing but whitespace
BlankField(raw, c) ==
    /\ Utf8Valid(Slice(raw, metadata.columns[c].start, metadata.columns[c].end))
    /\ Strip(Text(raw, c)) = <<>>

\* every column of the layout is a NUM without scale or a CHAR
PlainLayout ==
    \A c \in 1..Len(metadata.columns) :
       \/ metadata.columns[c].type = "CHAR"
       \/ metadata.columns[c].type = "NUM" /\ metadata.columns[c].d = 0

\* the bytes of field c of raw are the value v as it is written
Written(raw, c, v) ==
    EncodeField(metadata.columns[c], v) =
        Slice(raw, metadata.columns[c].start, metadata.columns[c].end)

\* a value read is the value written: equal, and for a text equal once the
\* padding is stripped from both
SameValue(read, v) ==
    IF v.t = "str" THEN read.t = "str" /\ Strip(read.s) = Strip(v.s)
    ELSE read = v

\* the outcome of next() on the record at offset off of the file for a
\* reader built without an expected size
UncheckedOutcome(off) ==
    NextOutcome(
        ReadRecord(FWFMeta(file, metadata.rlen, metadata.columns, NoInt, NoInt),
                   SubSeq(file, off + 1, off + metadata.rlen), 0), off)

\* the items an iteration over the reader delivers: one per __next__ that
\* returned, whatever the value returned
Delivered == {i \in 1..Len(results) : results[i].kind \in Returned}

----------------------------------------------------------------------------
(* Properties *)

\* C1: on a file of N >= 1 records, each followed by exactly the detected
\* terminator width of CR / LF bytes, an opened reader pulled until
\* exhaustion has returned exactly N results, the k-th decoded from the file
\* bytes [k * (rlen + w), k * (rlen + w) + rlen)
C1_RecordsInFileOrder ==
    (input = "open" /\ WellFormedFile /\ result.kind = "StopIteration")
    => /\ Len(results) = Len(file) \div Stride
       /\ \A k \in 0..(Len(results) - 1) :
             /\ results[k + 1].kind \in Returned
             /\ results[k + 1].off = k * Stride
             /\ results[k + 1].raw =
                   SubSeq(file, k * Stride + 1, k * Stride + metadata.rlen)

\* C2: each call of read_record advances record_start_pos by exactly
\* rlen + eof_len bytes, for every record including the last one
C2_CursorAdvancesByStride ==
    (result.kind \in Returned \cup {"UnicodeDecodeError"} /\ data /= NoData)
    => record_start_pos - (result.off - BufferBase) = Stride

\* C3: when the file size is no multiple of rlen + eof_len, no result is
\* produced from a block of fewer than rlen bytes, and no more records are
\* pulled from a buffer than the whole records it holds
C3_NoPartialRecord ==
    (eof_len /= NoInt /\ Len(file) % Stride /= 0)
    => /\ \A i \in 1..Len(results) : Len(results[i].raw) = metadata.rlen
       /\ (data /= NoData /\ data /= <<>>)
             => b <= (Len(data) + eof_len) \div Stride

\* C4: a pulled record is rejected exactly when more than 3 of its fields
\* fail: each record with 4 or more failing fields adds 1 to bad_lines only,
\* each record with 3 or fewer adds 1 to good_lines only and is returned
C4_RejectedAboveThreeFailures ==
    /\ \A i \in 1..Len(results) :
          /\ results[i].kind = "rejected" <=> FailingFields(results[i].raw) > 3
          /\ FailingFields(results[i].raw) <= 3 => results[i].kind = "record"
    /\ bad_lines =
          Cardinality({i \in 1..Len(results) : FailingFields(results[i].raw) > 3})
    /\ good_lines =
          Cardinality({i \in 1..Len(results) : FailingFields(results[i].raw) <= 3})

\* C5: after next() rejected the record at position k, the following next()
\* decodes the record at position k + 1 from its byte offset, and every
\* later record without a failing field is returned before exhaustion
C5_ReadContinuesAfterRejection ==
    \A i \in 1..Len(results) :
       results[i].kind = "rejected"
       => /\ (i < Len(results) /\
                results[i].off + Stride + metadata.rlen <= Len(file))
             => /\ results[i + 1].off = results[i].off + Stride
                /\ results[i + 1].kind \in Returned
          /\ (input = "open" /\ result.kind = "StopIteration")
             => \A k \in 0..(Len(file) \div Stride) :
                   ( /\ k * Stride > results[i].off
                     /\ k * Stride + metadata.rlen <= Len(file)
                     /\ FailingFields(SubSeq(file, k * Stride + 1,
                                             k * Stride + metadata.rlen)) = 0 )
                   => \E j \in (i + 1)..Len(results) :
                         /\ results[j].kind = "record"
                         /\ results[j].off = k * Stride

\* C6: no failure of a single field propagates out of next(): on an open
\* reader next() returns a record, rejects a record or signals exhaustion
C6_FieldFailureAbsorbed ==
    input = "open" => result.kind \in {"None", "record", "rejected", "StopIteration"}

\* C7: good_lines + bad_lines = line = the number of next() calls that did
\* not signal exhaustion
C7_EveryRecordCounted ==
    /\ good_lines + bad_lines = line
    /\ line = calls

\* C8: repeated next() calls on an opened reader lead to StopIteration, and
\* StopIteration is raised only when a refill returned zero bytes, at the
\* end of the file
C8_ExhaustionAtEndOfFile ==
    /\ [](result.kind = "StopIteration" => (data = <<>> /\ fpos = Len(file)))
    /\ (input = "open" ~> result.kind = "StopIteration")

C8_Witness ==
    /\ input = "open"
    /\ result.kind = "StopIteration"
    /\ Len(results) >= 2
    /\ data = <<>>

\* C9: after close() every next() signals exhaustion and returns no record
C9_ClosedReaderExhausted ==
    [][(input = "closed" /\ NextAct) => result'.kind = "StopIteration"]_vars

\* C10: when the with-block was left, normally or by an exception, and when
\* open() failed while sniffing the terminator, no handle is held open
C10_ScopedRelease ==
    pc \in {"done", "failed"} => (handles = 0 /\ input /= "open")

C10_Witness ==
    /\ pc = "done"
    /\ result.kind = "UnicodeDecodeError"
    /\ input = "closed"
    /\ handles = 0

\* C11: in the second of two passes over the same file (open, pull to the
\* end, close, open, pull to the end) every pull gives what the pull of the
\* same rank gave in the first pass, and at the end of the second pass it
\* has delivered as many records, and counted as many good and bad lines,
\* as the first
C11_SecondPassRepeatsFirst ==
    pc = "pass2"
    => /\ calls = Len(results)
       /\ Len(results) <= 2 * mark[1]
       /\ \A j \in (mark[1] + 1)..Len(results) :
             results[j] = results[j - mark[1]]
       /\ result.kind = "StopIteration"
             => /\ Len(results) = 2 * mark[1]
                /\ good_lines - mark[2] = mark[2]
                /\ bad_lines - mark[3] = mark[3]

\* C12: on a file that holds at least one complete record, open() returns
\* with the reader opened and eof_len set to the number of CR / LF bytes
\* that follow the first rlen bytes, also when these bytes run to the end
\* of the file
C12_TerminatorWidthDetected ==
    (open_result /= "None" /\ Len(file) >= metadata.rlen)
    => /\ open_result = "return"
       /\ input /= "None"
       /\ eof_len = CountEol(file, metadata.rlen)

\* C13: after open(), eof_len is 0, 1 or 2, whatever the file holds
C13_TerminatorWidthAtMostTwo ==
    open_result /= "None" => eof_len \in 0..2

\* C16: an iteration over the reader to its end delivers exactly good_lines
\* items: a rejected record delivers nothing
C16_RejectedRecordNotDelivered ==
    (input = "open" /\ result.kind = "StopIteration")
    => /\ Cardinality(Delivered) = good_lines
       /\ \A i \in Delivered : results[i].kind = "record"

\* C14 as stated: when a DATE field is the one field of a record that
\* fails, next() returns the record and counts it good, with the text of
\* the field trimmed of its whitespace for this column and the converted
\* value for every other column
C14_FallbackIsTrimmedText ==
    /\ good_lines = Cardinality({i \in 1..Len(results) : results[i].kind = "record"})
    /\ \A i \in 1..Len(results) : \A c \in 1..Len(metadata.columns) :
          OnlyDateFails(results[i].raw, c)
          => /\ results[i].kind = "record"
             /\ results[i].rec[c] = PyStr(Strip(Text(results[i].raw, c)))
             /\ \A k \in 1..Len(metadata.columns) \ {c} :
                   results[i].rec[k] = Converted(results[i].raw, k)

\* C14 amended: when a DATE field is the one field of a record that fails,
\* next() returns the record and counts it good, with the decoded text of
\* the field as it is, whitespace included, for this column and the
\* converted value for every other column
C14_FallbackIsRawText ==
    /\ good_lines = Cardinality({i \in 1..Len(results) : results[i].kind = "record"})
    /\ \A i \in 1..Len(results) : \A c \in 1..Len(metadata.columns) :
          OnlyDateFails(results[i].raw, c)
          => /\ results[i].kind = "record"
             /\ results[i].rec[c] = PyStr(Text(results[i].raw, c))
             /\ \A k \in 1..Len(metadata.columns) \ {c} :
                   results[i].rec[k] = Converted(results[i].raw, k)

C14_Witness ==
    /\ Len(results) >= 1
    /\ results[1].kind = "record"
    /\ OnlyDateFails(results[1].raw, 2)
    /\ results[1].rec[1] = PyInt(11)
    /\ results[1].rec[2] = PyStr(<<Ch.sp, Ch.x>>)
    /\ good_lines = 1

\* C15 as stated: a field that is empty or all whitespace is read as None
\* in a NUM or DATE column, whatever the scale, and as the stripped text in
\* a column of another type
C15_BlankFieldNoneOrStripped ==
    \A i \in 1..Len(results) : \A c \in 1..Len(metadata.columns) :
       (results[i].kind = "record" /\ BlankField(results[i].raw, c))
       => IF metadata.columns[c].type \in {"NUM", "DATE"}
          THEN results[i].rec[c] = PyNone
          ELSE results[i].rec[c] = PyStr(Strip(Text(results[i].raw, c)))

\* C15 amended: a field that is empty or all whitespace is read as None in
\* a DATE column and in a NUM column of scale 0, and as its decoded text,
\* whitespace kept, in a NUM column with a scale and in a column of another
\* type
C15_BlankFieldNoneOrRaw ==
    \A i \in 1..Len(results) : \A c \in 1..Len(metadata.columns) :
       (results[i].kind = "record" /\ BlankField(results[i].raw, c))
       => IF \/ metadata.columns[c].type = "DATE"
             \/ metadata.columns[c].type = "NUM" /\ metadata.columns[c].d = 0
          THEN results[i].rec[c] = PyNone
          ELSE results[i].rec[c] = PyStr(Text(results[i].raw, c))

C15_Witness ==
    /\ Len(results) >= 1
    /\ results[1].raw = Fill(Ch.sp, 6)
    /\ results[1].rec = <<PyNone, PyNone, PyStr(<<Ch.sp>>), PyStr(<<Ch.sp>>)>>

\* C17 as stated: the pos of the FTSParseException of a rejected record is
\* the start of the first field of the record that fails
C17_PosOfFirstFailingField ==
    \A i \in 1..Len(results) :
       results[i].kind = "rejected"
       => results[i].errpos =
             metadata.columns[NthFailing(results[i].raw, 1)].start

\* C17 amended: the pos of the FTSParseException of a rejected record is
\* the start of the fourth field, in the order of the layout, that fails:
\* the field whose failure takes the count above 3
C17_PosOfFourthFailingField ==
    \A i \in 1..Len(results) :
       results[i].kind = "rejected"
       => results[i].errpos =
             metadata.columns[NthFailing(results[i].raw, MaxFieldErrors + 1)].start

C17_Witness ==
    /\ Len(results) >= 1
    /\ results[1].kind = "rejected"
    /\ FailingSet(results[1].raw) = {1, 3, 4, 5}
    /\ results[1].errpos = 1
    /\ metadata.columns[1].start = 4

\* C18: for a layout whose column names differ, the mapping a reader with
\* ret_dict set returns for a record has exactly one key per column, and
\* under the name of column c the element c of the list a reader without
\* ret_dict returns for the same record; a reader without ret_dict returns
\* that list; column_names() is the names in the order of the layout
C18_DictMatchesList ==
    /\ Len(ColumnNames(metadata)) = metadata.ncol
    /\ \A c \in 1..metadata.ncol :
          ColumnNames(metadata)[c] = metadata.columns[c].name
    /\ \A i \in 1..Len(results) :
          results[i].kind = "record"
          => LET list == ReadRecord(metadata, results[i].raw, 0).dec.rec
             IN  IF rdict
                 THEN /\ DOMAIN results[i].ret =
                            {metadata.columns[c].name : c \in 1..metadata.ncol}
                      /\ Cardinality(DOMAIN results[i].ret) = metadata.ncol
                      /\ \A c \in 1..metadata.ncol :
                            results[i].ret[ColumnNames(metadata)[c]] = list[c]
                 ELSE results[i].ret = list

C18_Witness ==
    /\ rdict
    /\ Len(results) >= 1
    /\ results[1].kind = "record"
    /\ DOMAIN results[1].ret = {"n", "d", "s", "q"}
    /\ results[1].ret["n"] = PyInt(1)
    /\ results[1].ret["d"] = PyStr(<<Ch.x, Ch.sp>>)
    /\ results[1].ret["q"] = PyStr(<<Ch.one>>)

\* C19: an FWFMeta built with an expected size is built without an
\* exception and holds the size of the file, also when the expected size
\* differs from it, and a reader on it gives for every record the outcome
\* that a reader built without an expected size gives, up to the end of
\* the file
C19_SizeMismatchOnlyWarns ==
    /\ ~metadata.raised
    /\ metadata.size = Len(file)
    /\ \A i \in 1..Len(results) :
          results[i] = UncheckedOutcome((i - 1) * Stride)
    /\ (input = "open" /\ result.kind = "StopIteration")
          => Len(results) = Len(file) \div Stride

C19_Witness ==
    /\ metadata.warning = <<Len(file), Len(file) + 1>>
    /\ input = "open"
    /\ result.kind = "StopIteration"
    /\ Len(results) = 2
    /\ results[1].kind = "record"

\* C20: for a layout of NUM columns without scale and CHAR columns, a
\* record whose fields are values written to the width of their columns is
\* returned by the reader with these values: the integers and the absent
\* values equal, the texts equal up to padding
C20_RoundTrip ==
    \A i \in 1..Len(results) :
       ( /\ PlainLayout
         /\ \A c \in 1..Len(metadata.columns) :
               \E v \in FieldValues(metadata.columns[c]) :
                  Written(results[i].raw, c, v) )
       => /\ results[i].kind = "record"
          /\ \A c \in 1..Len(metadata.columns) :
                \A v \in FieldValues(metadata.columns[c]) :
                   Written(results[i].raw, c, v)
                   => SameValue(results[i].rec[c], v)

C20_Witness ==
    /\ PlainLayout
    /\ Len(results) >= 1
    /\ results[1].raw = <<45, 57, Ch.x, Ch.sp>>
    /\ results[1].rec = <<PyInt(0 - 9), PyStr(<<Ch.x, Ch.sp>>)>>

\* how many of the tokens ms mean the year n
Meaning(ms, n) ==
    Cardinality({i \in 1..Len(ms) : ms[i].a <= n /\ n <= ms[i].b})

\* how many times n is in the list l
Occurrences(l, n) == Cardinality({i \in 1..Len(l) : l[i] = n})

\* l is the ascending list of the years the tokens ms mean
YearsOfTokens(l, ms) ==
    /\ \A i \in 1..(Len(l) - 1) : l[i] <= l[i + 1]
    /\ \A n \in 0..2000 : Occurrences(l, n) = Meaning(ms, n)
    /\ \A i \in 1..Len(l) : l[i] \in 0..2000

\* C21: validate("years", v) returns, for a list v of tokens that are a
\* year or a range a:b and for one such token given as a str, the
\* ascending list of every year given and of every year a..b of every
\* range; the default 1990:Y gives [1990, ..., Y]
C21_YearsExpanded ==
    (context.state = "done" /\ context.attr = "years")
    => /\ \A ms \in MeantLists :
             context.value = PyList(ListText(ms))
             => /\ context.kind = "return"
                /\ context.ret.t = "list"
                /\ YearsOfTokens(context.ret.items, ms)
       /\ \A m \in MeantTokens :
             context.value = PyStr(TokenText(m))
             => /\ context.kind = "return"
                /\ context.ret.t = "list"
                /\ YearsOfTokens(context.ret.items, <<m>>)

C21_Witness ==
    /\ context.state = "done"
    /\ context.attr = "years"
    /\ context.value = PyList(ListText(<<Years(11, 13), Year(3)>>))
    /\ context.ret = PyList(<<3, 11, 12, 13>>)

\* C22: Tester.check(df) returns True exactly when every registered test
\* passes on df; it runs every registered test, also after one failed, so
\* that passes + failures is the number of registered tests; one failing
\* test makes the result False
C22_AllTestsRun ==
    tester.state = "checked"
    => /\ tester.out <=>
             \A i \in 1..Len(tester.tests) :
                TestCheck(tester.tests[i], tester.df).result
       /\ tester.num_tests = Len(tester.tests)
       /\ tester.passes + tester.num_failures = Len(tester.tests)
       /\ tester.num_failures =
             Cardinality({i \in 1..Len(tester.tests) :
                             ~TestCheck(tester.tests[i], tester.df).result})

C22_Witness ==
    /\ tester.state = "checked"
    /\ Len(tester.tests) = 2
    /\ ~TestCheck(tester.tests[1], tester.df).result
    /\ TestCheck(tester.tests[2], tester.df).result
    /\ ~tester.out
    /\ tester.num_tests = 2
    /\ tester.num_failures = 1

\* C23: a less_than test with value v passes exactly when every value of
\* the variable is less than v, and a greater_than test exactly when every
\* value is greater than v: a value equal to v makes the test fail
C23_StrictComparison ==
    tester.state = "checked"
    => \A i \in 1..Len(tester.tests) :
          /\ tester.tests[i].condition = "less_than"
             => (TestCheck(tester.tests[i], tester.df).result <=>
                   \A k \in 1..Len(tester.df) :
                      Less(tester.df[k], tester.tests[i].val))
          /\ tester.tests[i].condition = "greater_than"
             => (TestCheck(tester.tests[i], tester.df).result <=>
                   \A k \in 1..Len(tester.df) :
                      Greater(tester.df[k], tester.tests[i].val))

\* C30: a count_missing test that construction accepts can pass: one with
\* val = 0 passes on a data frame whose variable has no missing value
C30_ZeroMissingCanPass ==
    tester.state = "checked"
    => \A i \in 1..Len(tester.tests) :
          ( /\ tester.tests[i].condition = "count_missing"
            /\ tester.tests[i].val = Num(0, 1)
            /\ CountNaN(tester.df) = 0 )
          => TestCheck(tester.tests[i], tester.df).result

\* C24: open() is idempotent and the terminator is detected once: an open()
\* on a reader that holds a handle acquires no second handle and changes no
\* state of the reader, and once eof_len is detected no later open(), next()
\* or close() changes it
C24_OpenIdempotent ==
    [][ /\ (input /= "None" /\ Len(mark') > Len(mark)
            /\ mark'[Len(mark')] = "open")
           => UNCHANGED reader
        /\ eof_len /= NoInt => eof_len' = eof_len ]_vars

C24_Witness ==
    /\ Len(mark) >= 3
    /\ mark[Len(mark) - 2] = "open"
    /\ mark[Len(mark) - 1] = "next"
    /\ mark[Len(mark)] = "open"
    /\ result.kind = "record"
    /\ input = "open"
    /\ handles = 1
    /\ fpos > 0
    /\ eof_len = 1

\* C26: exhaustion is stable: once a next() on an open reader has signalled
\* the end of the sequence, every later next() on it signals it too and
\* leaves line, good_lines and bad_lines as they were
C26_ExhaustionStable ==
    [][ (result.kind = "StopIteration" /\ input = "open" /\ mark' /= mark)
        => /\ result'.kind = "StopIteration"
           /\ UNCHANGED <<line, good_lines, bad_lines>> ]_vars

C26_Witness ==
    /\ Len(mark) = 2
    /\ input = "open"
    /\ result.kind = "StopIteration"
    /\ line = 2
    /\ good_lines = 1
    /\ bad_lines = 1

\* what a caller sees of a pull: how it ended and the value it returned
Observed(out) == <<out.kind, out.ret>>

\* the pulls, up to the one that signals the end, of a reader with chunk
\* size n on the file f whose terminator was detected as eof_len: the
\* reader has read fp bytes, holds the buffer buf of q records, took k
\* records off it and has its cursor at rp
RECURSIVE Pulls(_, _, _, _, _, _, _, _)
Pulls(f, n, fp, buf, q, k, rp, acc) ==
    IF buf = NoData \/ k * q.den >= q.num
    THEN LET chunk == Slice(f, fp, fp + (metadata.rlen + eof_len) * n)
         IN  IF Exhausted(chunk) THEN acc
             ELSE LET r == ReadRecord(metadata, chunk, 0)
                  IN  Pulls(f, n, fp + Len(chunk), chunk,
                            [num |-> Len(chunk),
                             den |-> metadata.rlen + eof_len],
                            1, r.pos, Append(acc, NextOutcome(r, fp)))
    ELSE LET r == ReadRecord(metadata, buf, rp)
         IN  Pulls(f, n, fp, buf, q, k + 1, r.pos,
                   Append(acc, NextOutcome(r, fp - Len(buf) + rp)))

\* C25: the chunk size is not observable: on the same file a reader with
\* any other chunk size returns the same sequence of results, and ends with
\* the same line, good_lines and bad_lines
C25_ChunkSizeUnobservable ==
    (input = "open" /\ eof_len /= NoInt)
    => \A n \in ChunkSizes :
          LET other == Pulls(file, n, 0, NoData, [num |-> 0, den |-> 1], 0, 0,
                             <<>>)
          IN  /\ Len(results) <= Len(other)
              /\ \A i \in 1..Len(results) :
                    Observed(results[i]) = Observed(other[i])
              /\ result.kind = "StopIteration"
                 => /\ Len(other) = Len(results)
                    /\ line = Len(other)

\* C27: iterating an opened FSTReader over a table of N rows with any
\* buffer size returns the rows 1..N once each and in order and then
\* signals the end, with no other outcome, and the index current() returns
\* is inside the buffered block [first, last)
C27_AllRowsOnce ==
    fst_reader.state = "opened"
    => /\ fst_reader.out \in {"None", "row", "StopIteration"}
       /\ Len(fst_reader.rows) <= fst_reader.table
       /\ \A i \in 1..Len(fst_reader.rows) : fst_reader.rows[i] = i
       /\ fst_reader.out = "StopIteration"
          => Len(fst_reader.rows) = fst_reader.table
       /\ fst_reader.out = "row"
          => (fst_reader.r >= 0
              /\ fst_reader.first + fst_reader.r < fst_reader.last)

\* C28: after close(), in whatever state the reader was, every __next__
\* signals the end (StopIteration) and nothing else
C28_ClosedReaderExhausted ==
    fst_reader.state = "closed"
    => fst_reader.out \in {"None", "StopIteration"}

\* C29: _read(size) terminates on every finite stream, also one that ends
\* with the separator, and its result is at most size characters, the
\* surplus being kept in remainder.  The call counts as terminated here
\* when it ends, also by the exception of its last statements.
C29_ReadTerminates ==
    /\ (wrapper.state \in {"test", "body"}) ~> (wrapper.state = "raised")
    /\ [](wrapper.state = "raised"
          => /\ Len(wrapper.result) <= wrapper.size
             /\ wrapper.result \o wrapper.remainder = wrapper.buffer)

====
